---- MODULE Spec2Model ----
(***************************************************************************)
(* A model of then-request's request() (src/src/index.ts): body selection, *)
(* asynchronous header resolution, the caseless header merge, transport    *)
(* invocation and the buffering of the streamed response into the promise  *)
(* that request() returns.                                                 *)
(***************************************************************************)
EXTENDS Integers, Sequences, FiniteSets, TLC

VARIABLES
  phase,        \* position of the call: idle, resolvingHeaders, dispatched, closed
  args,         \* the arguments as the caller passed them
  options,      \* the options object as it is now (the code assigns to it)
  method,       \* the local `method` after toUpperCase()
  body,         \* the NormalizedBody handleBody() returned
  bodyHeaders,  \* the promise body.getHeaders() returned
  gotLength,    \* FormBody.getHeaders: the gotLength flag
  lengthCalls,  \* firings of the form's getLength callback so far
  firstLength,  \* what the first of those firings was given
  future,       \* the promise request() returns
  thrown,       \* request() threw synchronously to its caller
  transport,    \* invocations of basicRequest, in order
  sink,         \* what was done to the request sink basicRequest returned
  cbCalls,      \* firings of the transport completion callback so far
  streams,      \* response streams handed to the completion callback
  events        \* stream events (data, end, error) delivered so far

vars == <<phase, args, options, method, body, bodyHeaders, gotLength,
          lengthCalls, firstLength, future, thrown, transport, sink, cbCalls, streams,
          events>>

\* ---------------------------------------------------------------- bounds
\* Firings of the form's length callback, firings of the transport's
\* completion callback and stream events explored per call. The Wide bounds
\* hold for every call, the larger ones for the calls of DeepOptions.
MaxLengthCalls == 2
MaxCallbacks == 2
MaxEvents == 3
MaxCallbacksWide == 1
MaxEventsWide == 2

\* ------------------------------------------------------------- JS values
\* A JavaScript value: its type tag and a payload of numbers (code points of
\* a string, bytes of a Buffer, the digit of a number, 0/1 of a boolean,
\* key code point / digit pairs of a plain object).
Undefined == [t |-> "undefined", v |-> <<>>]
JsNull == [t |-> "null", v |-> <<>>]
JsFalse == [t |-> "boolean", v |-> <<0>>]
JsTrue == [t |-> "boolean", v |-> <<1>>]
JsNum(n) == [t |-> "number", v |-> <<n>>]
JsStr(s) == [t |-> "string", v |-> s]
JsBuf(b) == [t |-> "buffer", v |-> b]
JsStream == [t |-> "stream", v |-> <<>>]
JsObj(kv) == [t |-> "object", v |-> kv]
JsArray == [t |-> "array", v |-> <<>>]

\* JavaScript truthiness, as `if (x)`, `!x` and `x || y` apply it.
Truthy(x) ==
  CASE x.t \in {"undefined", "null"} -> FALSE
    [] x.t = "boolean" -> x.v = <<1>>
    [] x.t = "number" -> x.v # <<0>>
    [] x.t = "string" -> x.v # <<>>
    [] OTHER -> TRUE

\* Errors: name is TypeError or Error for an error object, "string" for a
\* raw string used as a rejection value, "none" for no error.
Err(name, message) == [name |-> name, message |-> message]
NoError == Err("none", "")

\* ----------------------------------------------------------- conversions
\* Mutant of ToUpperCase: the method is used in the case it was given.
NoUpperCase(s) == s

\* String.prototype.toUpperCase on the method strings of the model.
ToUpperCase(s) ==
  CASE s = "get" -> "GET"
    [] s = "Delete" -> "DELETE"
    [] s = "head" -> "HEAD"
    [] s = "put" -> "PUT"
    [] OTHER -> s

\* String.prototype.toLowerCase on the header names of the model.
ToLowerCase(s) ==
  CASE s = "Content-Type" -> "content-type"
    [] s = "CONTENT-LENGTH" -> "content-length"
    [] s = "X-Trace" -> "x-trace"
    [] OTHER -> s

\* UTF-8 encoding of one code point below 2048.
Utf8(cp) == IF cp < 128 THEN <<cp>> ELSE <<192 + (cp \div 64), 128 + (cp % 64)>>

RECURSIVE Utf8Bytes(_)
Utf8Bytes(s) == IF s = <<>> THEN <<>> ELSE Utf8(Head(s)) \o Utf8Bytes(Tail(s))

\* Buffer.from(string)
BufferFrom(str) == JsBuf(Utf8Bytes(str.v))

\* The members of a plain object, "k":d joined by commas.
RECURSIVE Members(_)
Members(kv) ==
  IF kv = <<>> THEN <<>>
  ELSE <<34, kv[1], 34, 58, 48 + kv[2]>>
       \o (IF Len(kv) > 2 THEN <<44>> ELSE <<>>)
       \o Members(SubSeq(kv, 3, Len(kv)))

\* JSON.stringify(value): a string, or undefined for what has no JSON form.
JSONstringify(x) ==
  CASE x.t = "number" -> JsStr(<<48 + x.v[1]>>)
    [] x.t = "boolean" -> JsStr(IF x.v = <<1>> THEN <<116, 114, 117, 101>>
                                               ELSE <<102, 97, 108, 115, 101>>)
    [] x.t = "null" -> JsStr(<<110, 117, 108, 108>>)
    [] x.t = "string" -> JsStr(<<34>> \o x.v \o <<34>>)
    [] x.t = "object" -> JsStr(<<123>> \o Members(x.v) \o <<125>>)
    [] OTHER -> Undefined

\* ------------------------------------------------------------ header maps
\* A headers object: its own keys in insertion order, each with its value.
Keys(dict) == {dict[i].k : i \in 1..Len(dict)}

IndexOfKey(dict, key) ==
  IF key \in Keys(dict)
  THEN CHOOSE i \in 1..Len(dict) : dict[i].k = key
  ELSE 0

\* obj[key] = value on a plain object.
ObjSet(dict, key, value) ==
  IF key \in Keys(dict)
  THEN [dict EXCEPT ![IndexOfKey(dict, key)].v = value]
  ELSE Append(dict, [k |-> key, v |-> value])

RECURSIVE ObjAssign(_, _)
\* {...target, ...source}
ObjAssign(target, source) ==
  IF source = <<>> THEN target
  ELSE ObjAssign(ObjSet(target, Head(source).k, Head(source).v), Tail(source))

\* Mutant of CaselessHas: a case-sensitive look-up of the name.
ExactHas(dict, name) == IF name \in Keys(dict) THEN name ELSE ""

\* caseless(dict).has(name): the first own key equal to name when both are
\* lower-cased, or false ("" stands for false: both are falsy).
CaselessHas(dict, name) ==
  LET hits == {i \in 1..Len(dict) : ToLowerCase(dict[i].k) = ToLowerCase(name)}
  IN IF hits = {} THEN ""
     ELSE dict[CHOOSE i \in hits : \A j \in hits : i <= j].k

\* caseless(dict).set(name, value): dict[has || name] = value
CaselessSet(dict, name, value) ==
  LET has == CaselessHas(dict, name)
  IN ObjSet(dict, IF has # "" THEN has ELSE name, value)

\* --------------------------------------------------------------- promises
\* A promise of the `promise` library: settled by the first resolve or reject,
\* later ones are ignored.
Pending(v) == [state |-> "pending", error |-> NoError, value |-> v]

PResolve(p, v) ==
  IF p.state = "pending"
  THEN [state |-> "fulfilled", error |-> NoError, value |-> v]
  ELSE p

\* Mutant of PReject: a rejection that overwrites a settled promise.
PRejectSettled(p, e) == [state |-> "rejected", error |-> e, value |-> p.value]

PReject(p, e) ==
  IF p.state = "pending"
  THEN [state |-> "rejected", error |-> e, value |-> p.value]
  ELSE p

\* ----------------------------------------------------------------- inputs
NoForm == [t |-> "undefined", headersThrows |-> FALSE, lengthThrows |-> FALSE]
Form(ht, lt) == [t |-> "form", headersThrows |-> ht, lengthThrows |-> lt]
NoHeaders == [def |-> FALSE, dict |-> <<>>]
HeadersObj(d) == [def |-> TRUE, dict |-> d]
H(k, v) == [k |-> k, v |-> v]

\* An options argument of type t with no field set; t = "object" is {}.
Bare(t) ==
  [t |-> t, body |-> Undefined, json |-> Undefined, form |-> NoForm,
   headers |-> NoHeaders, followRedirects |-> Undefined, gzip |-> Undefined]

Methods == {"GET", "Delete", "head", "put"}
MethodArgs == {[t |-> "string", s |-> m] : m \in Methods}
              \cup {[t |-> "number", s |-> "42"]}
UrlArgs == {[t |-> "string", s |-> "http://x/"], [t |-> "undefined", s |-> ""]}
Bodies == {Undefined, JsStr(<<104, 233>>), JsBuf(<<1, 2, 3>>), JsStream,
           JsObj(<<>>)}
Jsons == {Undefined, JsFalse, JsObj(<<97, 1>>)}
Forms == {NoForm, Form(FALSE, FALSE), Form(TRUE, FALSE), Form(FALSE, TRUE)}
HeaderArgs == {NoHeaders,
               HeadersObj(<<H("Content-Type", "text/plain")>>),
               HeadersObj(<<H("X-Trace", "1"), H("CONTENT-LENGTH", "99")>>)}
\* What the caller may give for followRedirects and for gzip.
Flags == {Undefined, JsNull, JsFalse, JsNum(0), JsTrue}
OptionArgs ==
  {Bare("undefined"), Bare("null"), Bare("string")}
  \cup [t : {"object"}, body : Bodies, json : Jsons, form : Forms,
        headers : HeaderArgs, followRedirects : {Undefined}, gzip : {Undefined}]
  \cup {[Bare("object") EXCEPT !.followRedirects = f, !.gzip = g] :
          f \in Flags, g \in Flags}

\* The options whose calls are followed through repeated completion callbacks
\* and longer streams: no options, {}, {body: 'h\u00e9'} and {form}.
DeepOptions ==
  {Bare("undefined"), Bare("object"),
   [Bare("object") EXCEPT !.body = JsStr(<<104, 233>>)],
   [Bare("object") EXCEPT !.form = Form(FALSE, FALSE)]}
CallbackBound(o) == IF o \in DeepOptions THEN MaxCallbacks ELSE MaxCallbacksWide
EventBound(o) == IF o \in DeepOptions THEN MaxEvents ELSE MaxEventsWide

\* What basicRequest does when invoked: returns a request sink, returns
\* nothing, or throws.
TransportReturns == {"sink", "none", "throw"}
TransportThrew == Err("Error", "transport threw")

\* ------------------------------------------------------------ body variants
\* Mutant of NoBody: a request without a body carries an empty Buffer body.
EmptyBufferBody ==
  [variant |-> "Buffer", bytes |-> <<>>, extra |-> <<>>, form |-> NoForm]

\* ready() called with no argument: body is undefined.
NoBody == [variant |-> "none", bytes |-> <<>>, extra |-> <<>>, form |-> NoForm]
BufferBody(b, extraHeaders) ==
  [variant |-> "Buffer", bytes |-> b.v, extra |-> extraHeaders, form |-> NoForm]
FormBody(f) == [variant |-> "Form", bytes |-> <<>>, extra |-> <<>>, form |-> f]
StreamBody(b) ==
  [variant |-> "Stream", bytes |-> <<>>, extra |-> <<>>, form |-> NoForm]

Returned(b) == [threw |-> FALSE, err |-> NoError, body |-> b]
Threw(e) == [threw |-> TRUE, err |-> e, body |-> NoBody]

\* Mutant of OrEmptyBuffer: an absent body stays absent.
NoDefaultBody(b) == b

\* if (!body) body = Buffer.alloc(0)
OrEmptyBuffer(b) == IF ~Truthy(b) THEN JsBuf(<<>>) ELSE b

handleBody(opts) ==
  IF opts.form.t = "form" THEN Returned(FormBody(opts.form))
  ELSE
    LET extraHeaders ==
          IF Truthy(opts.json)
          THEN <<H("content-type", "application/json")>> ELSE <<>>
        body1 == IF Truthy(opts.json) THEN JSONstringify(opts.json) ELSE opts.body
        body2 == IF body1.t = "string" THEN BufferFrom(body1) ELSE body1
        body3 == OrEmptyBuffer(body2)
    IN IF body3.t # "buffer"
       THEN IF body3.t = "stream" THEN Returned(StreamBody(body3))
            ELSE Threw(Err("TypeError", "body should be a Buffer or a String"))
       ELSE Returned(BufferBody(body3, extraHeaders))

\* The form component's own getHeaders() and the errors it may raise.
FormOwnHeaders == <<H("content-type", "multipart/form-data; boundary=b")>>
FormHeadersThrew == Err("Error", "form getHeaders threw")
FormLengthThrew == Err("Error", "form getLength threw")

\* Mutant of StreamHeaders: a length is announced for the stream.
StreamHeadersWithLength == <<H("content-length", "0")>>

\* StreamBody.getHeaders: Promise.resolve({})
StreamHeaders == <<>>

\* body.getHeaders(): throws, or returns a promise. A FormBody's promise holds
\* the form's headers while it waits for the length callback.
GotHeaders(p) == [threw |-> FALSE, err |-> NoError, promise |-> p]
getHeaders(b) ==
  CASE b.variant = "Buffer" ->
         GotHeaders(PResolve(Pending(<<>>),
           ObjAssign(<<H("content-length", ToString(Len(b.bytes)))>>, b.extra)))
    [] b.variant = "Stream" -> GotHeaders(PResolve(Pending(<<>>), StreamHeaders))
    [] b.variant = "Form" ->
         IF b.form.headersThrows
         THEN [threw |-> TRUE, err |-> FormHeadersThrew, promise |-> Pending(<<>>)]
         ELSE IF b.form.lengthThrows
         THEN GotHeaders(PReject(Pending(FormOwnHeaders), FormLengthThrew))
         ELSE GotHeaders(Pending(FormOwnHeaders))

\* body.pipe(req): what the sink sees, req being the sink that invocation
\* number req of the transport returned.
pipe(b, req) ==
  IF b.variant = "Buffer"
  THEN [op |-> "end", src |-> b.variant, bytes |-> b.bytes, req |-> req]
  ELSE [op |-> "pipe", src |-> b.variant, bytes |-> <<>>, req |-> req]

\* ---------------------------------------------------------------- responses
NoRes == [present |-> FALSE, statusCode |-> 0, headers |-> <<>>, url |-> ""]
Res200 ==
  [present |-> TRUE, statusCode |-> 200,
   headers |-> <<H("content-type", "text/html")>>, url |-> "http://x/moved"]
\* What the transport may hand to its completion callback: (err, res).
Completions == {<<Err("Error", "ECONNRESET"), NoRes>>, <<NoError, NoRes>>,
                <<NoError, Res200>>}
StreamErr == Err("Error", "stream aborted")
\* The n-th chunk response stream i delivers.
Chunk(i, n) == <<10 * i + n>>
LengthErrs == {NoError, Err("string", ""), Err("string", "boom"),
               Err("Error", "ENOENT")}
Lengths == {7}

NoResponse == [statusCode |-> 0, headers |-> <<>>, body |-> Undefined, url |-> ""]
GenericResponse(statusCode, headers, b, url) ==
  [statusCode |-> statusCode, headers |-> headers, body |-> b, url |-> url]

RECURSIVE Flatten(_)
Flatten(chunks) ==
  IF chunks = <<>> THEN <<>> ELSE Head(chunks) \o Flatten(Tail(chunks))

\* What concat-stream hands to its callback: an empty array when nothing was
\* written, else one Buffer of all the chunks in the order written.
concat(chunks) == IF chunks = <<>> THEN JsArray ELSE JsBuf(Flatten(chunks))

\* Mutant of BodyOrEmpty: the accumulated value is passed on as it is.
BodyAsAccumulated(b) == b

\* Array.isArray(body) ? Buffer.alloc(0) : body
BodyOrEmpty(b) == IF b.t = "array" THEN JsBuf(<<>>) ELSE b

\* Mutant of NewStream: the drain is started before the listener is attached.
PipeBeforeListener(res) ==
  [res |-> res, ops |-> <<"pipe", "on:error">>, chunks |-> <<>>, ended |-> FALSE]

\* res.body.on('error', reject); res.body.pipe(concat(...))
NewStream(res) ==
  [res |-> res, ops |-> <<"on:error", "pipe">>, chunks |-> <<>>, ended |-> FALSE]

\* ------------------------------------------------------------------- state
Init ==
  /\ phase = "idle"
  /\ args = [method |-> [t |-> "undefined", s |-> ""],
             url |-> [t |-> "undefined", s |-> ""],
             options |-> Bare("undefined")]
  /\ options = Bare("undefined")
  /\ method = ""
  /\ body = NoBody
  /\ bodyHeaders = Pending(<<>>)
  /\ gotLength = FALSE
  /\ lengthCalls = 0
  /\ firstLength = [err |-> NoError, length |-> 0]
  /\ future = Pending(NoResponse)
  /\ thrown = FALSE
  /\ transport = <<>>
  /\ sink = <<>>
  /\ cbCalls = 0
  /\ streams = <<>>
  /\ events = 0

\* Mutant of ExecutorThrow: the exception leaves request() instead.
ThrowToCaller(e, opts, M) ==
  /\ thrown' = TRUE
  /\ phase' = "closed"
  /\ options' = opts
  /\ method' = M
  /\ UNCHANGED <<body, bodyHeaders, future, transport, sink>>

\* An exception raised inside the executor of `new Promise(...)`: the promise
\* is rejected with it and nothing reaches the caller of request().
ExecutorThrow(e, opts, M) ==
  /\ future' = PReject(future, e)
  /\ phase' = "closed"
  /\ options' = opts
  /\ method' = M
  /\ UNCHANGED <<body, bodyHeaders, thrown, transport, sink>>

\* Mutant of NotFalse: the flag is on when the option is truthy.
WhenTruthy(x) == Truthy(x)

\* options.followRedirects !== false, options.gzip !== false
NotFalse(x) == x # JsFalse

\* Mutant of ShouldPipe: the body is piped whether or not a sink came back.
PipeWithoutSink(r, b) == b.variant # "none"

\* if (req && body)
ShouldPipe(r, b) == r = "sink" /\ b.variant # "none"

\* ready(body): invoke the transport, then pipe the body into the sink it
\* returned, if both exist.
ready(opts, M, url, b, r) ==
  /\ transport' = Append(transport,
       [method |-> M, url |-> url, headers |-> opts.headers.dict,
        followRedirects |-> NotFalse(opts.followRedirects),
        gzip |-> NotFalse(opts.gzip), ret |-> r])
  /\ sink' = IF ShouldPipe(r, b)
             THEN Append(sink, pipe(b, Len(transport) + 1)) ELSE sink
  /\ future' = IF r = "throw" THEN PReject(future, TransportThrew) ELSE future
  /\ phase' = IF r = "throw" THEN "closed" ELSE "dispatched"

IsDuplex(M) == ~(M = "GET" \/ M = "DELETE" \/ M = "HEAD")

\* The executor of the promise request() returns, up to the first suspension.
request(m, u, o, r) ==
  /\ phase = "idle"
  /\ args' = [method |-> m, url |-> u, options |-> o]
  /\ UNCHANGED <<gotLength, lengthCalls, firstLength, cbCalls, streams, events>>
  /\ IF m.t # "string"
     THEN ExecutorThrow(Err("TypeError", "The method must be a string."), o, method)
     ELSE IF u.t # "string"
     THEN ExecutorThrow(Err("TypeError", "The URL/path must be a string."), o, method)
     ELSE
       LET opts0 == IF o.t \in {"undefined", "null"} THEN Bare("object") ELSE o
       IN IF opts0.t # "object"
          THEN ExecutorThrow(Err("TypeError", "Options must be an object (or null)."),
                             opts0, method)
          ELSE
            LET M == ToUpperCase(m.s)
                opts == [opts0 EXCEPT
                           !.headers = IF @.def THEN @ ELSE HeadersObj(<<>>)]
            IN IF IsDuplex(M)
               THEN LET hb == handleBody(opts)
                        gh == getHeaders(hb.body)
                    IN IF hb.threw THEN ExecutorThrow(hb.err, opts, M)
                       ELSE IF gh.threw THEN ExecutorThrow(gh.err, opts, M)
                       ELSE /\ body' = hb.body
                            /\ bodyHeaders' = gh.promise
                            /\ phase' = "resolvingHeaders"
                            /\ options' = opts
                            /\ method' = M
                            /\ UNCHANGED <<future, thrown, transport, sink>>
               ELSE IF Truthy(opts.body)
               THEN ExecutorThrow(
                      Err("Error", "You cannot pass a body to a " \o M \o " request."),
                      opts, M)
               ELSE /\ ready(opts, M, u.s, NoBody, r)
                    /\ options' = opts
                    /\ method' = M
                    /\ UNCHANGED <<body, bodyHeaders, thrown>>

\* Mutant of toError: the failure is passed on as it came.
asGiven(err) == err

\* typeof err == 'string' ? new Error(err) : err
toError(err) == IF err.name = "string" THEN Err("Error", err.message) ELSE err

\* `if (err)` on what the length callback is given: null and '' are falsy.
IsFailure(err) == ~(err.name = "none" \/ (err.name = "string" /\ err.message = ""))

\* The callback FormBody.getHeaders gives to the form's getLength.
getLengthCallback(err, length) ==
  /\ body.variant = "Form"
  /\ ~body.form.lengthThrows
  /\ lengthCalls < MaxLengthCalls
  /\ lengthCalls' = lengthCalls + 1
  /\ firstLength' = IF lengthCalls = 0 THEN [err |-> err, length |-> length]
                     ELSE firstLength
  /\ gotLength' = TRUE
  /\ bodyHeaders' =
       IF gotLength THEN bodyHeaders
       ELSE IF IsFailure(err) THEN PReject(bodyHeaders, toError(err))
       ELSE PResolve(bodyHeaders,
                     ObjSet(bodyHeaders.value, "content-length", ToString(length)))
  /\ UNCHANGED <<phase, args, options, method, body, future, thrown, transport,
                 sink, cbCalls, streams, events>>

RECURSIVE MergeHeaders(_, _)
\* Object.keys(bodyHeaders).forEach(key => { if (!headers.has(key)) ... })
MergeHeaders(dict, bh) ==
  IF bh = <<>> THEN dict
  ELSE MergeHeaders(
         IF CaselessHas(dict, Head(bh).k) = ""
         THEN CaselessSet(dict, Head(bh).k, Head(bh).v) ELSE dict,
         Tail(bh))

\* Mutant of Fulfilled: the continuation runs on failure as on success.
Settled(p) == p.state # "pending"

\* promise.then(onFulfilled) runs onFulfilled once the promise is fulfilled.
Fulfilled(p) == p.state = "fulfilled"

\* Mutant of AwaitingHeaders: the continuation may run again after dispatch.
HeadersOrDispatched(ph) == ph \in {"resolvingHeaders", "dispatched"}

\* The continuations given to .then and .catch run at most once, after the
\* executor has returned with the body headers outstanding.
AwaitingHeaders(ph) == ph = "resolvingHeaders"

\* body.getHeaders().then(bodyHeaders => { ...; ready(body) })
thenBodyHeaders(r) ==
  /\ AwaitingHeaders(phase)
  /\ Fulfilled(bodyHeaders)
  /\ LET opts == [options EXCEPT
                    !.headers.dict = MergeHeaders(@, bodyHeaders.value)]
     IN /\ options' = opts
        /\ ready(opts, method, args.url.s, body, r)
  /\ UNCHANGED <<args, method, body, bodyHeaders, gotLength, lengthCalls,
                 firstLength, thrown, cbCalls, streams, events>>

\* body.getHeaders()....catch(reject)
catchBodyHeaders ==
  /\ AwaitingHeaders(phase)
  /\ bodyHeaders.state = "rejected"
  /\ future' = PReject(future, bodyHeaders.error)
  /\ phase' = "closed"
  /\ UNCHANGED <<args, options, method, body, bodyHeaders, gotLength,
                 lengthCalls, firstLength, thrown, transport, sink, cbCalls,
                 streams, events>>

\* Mutant of MissingResponse: a completion without error or response is
\* dropped.
MissingResponseIgnored(f) == f

\* if (!res) return reject(new Error('No request was received'))
MissingResponse(f) == PReject(f, Err("Error", "No request was received"))

\* The completion callback given to basicRequest.
transportCallback(err, res) ==
  /\ phase = "dispatched"
  /\ cbCalls < CallbackBound(args.options)
  /\ cbCalls' = cbCalls + 1
  /\ IF err # NoError
     THEN future' = PReject(future, err) /\ UNCHANGED streams
     ELSE IF ~res.present
     THEN future' = MissingResponse(future) /\ UNCHANGED streams
     ELSE streams' = Append(streams, NewStream(res)) /\ UNCHANGED future
  /\ UNCHANGED <<phase, args, options, method, body, bodyHeaders, gotLength,
                 lengthCalls, firstLength, thrown, transport, sink, events>>

\* The response stream writes a chunk into the concat stream. The last event
\* explored is kept for the stream's end or error.
streamData(i) ==
  /\ events + 1 < EventBound(args.options)
  /\ ~streams[i].ended
  /\ "pipe" \in {streams[i].ops[j] : j \in 1..Len(streams[i].ops)}
  /\ events' = events + 1
  /\ streams' = [streams EXCEPT ![i].chunks = Append(@, Chunk(i, Len(@) + 1))]
  /\ UNCHANGED <<phase, args, options, method, body, bodyHeaders, gotLength,
                 lengthCalls, firstLength, future, thrown, transport, sink,
                 cbCalls>>

\* The response stream ends: the callback given to concat runs.
streamEnd(i) ==
  /\ events < EventBound(args.options)
  /\ ~streams[i].ended
  /\ "pipe" \in {streams[i].ops[j] : j \in 1..Len(streams[i].ops)}
  /\ events' = events + 1
  /\ streams' = [streams EXCEPT ![i].ended = TRUE]
  /\ LET b == concat(streams[i].chunks)
         res == streams[i].res
     IN future' = PResolve(future,
          GenericResponse(res.statusCode, res.headers,
                          BodyOrEmpty(b), res.url))
  /\ UNCHANGED <<phase, args, options, method, body, bodyHeaders, gotLength,
                 lengthCalls, firstLength, thrown, transport, sink, cbCalls>>

\* The response stream emits 'error': its listeners run.
streamError(i) ==
  /\ events < EventBound(args.options)
  /\ events' = events + 1
  /\ future' = IF "on:error" \in {streams[i].ops[j] : j \in 1..Len(streams[i].ops)}
               THEN PReject(future, StreamErr) ELSE future
  /\ UNCHANGED <<phase, args, options, method, body, bodyHeaders, gotLength,
                 lengthCalls, firstLength, thrown, transport, sink, cbCalls,
                 streams>>

Next ==
  \/ \E m \in MethodArgs, u \in UrlArgs, o \in OptionArgs, r \in TransportReturns :
       request(m, u, o, r)
  \/ \E err \in LengthErrs, length \in Lengths : getLengthCallback(err, length)
  \/ \E r \in TransportReturns : thenBodyHeaders(r)
  \/ catchBodyHeaders
  \/ \E c \in Completions : transportCallback(c[1], c[2])
  \/ \E i \in 1..Len(streams) : streamData(i)
  \/ \E i \in 1..Len(streams) : streamEnd(i)
  \/ \E i \in 1..Len(streams) : streamError(i)

Spec == Init /\ [][Next]_vars

\* The transport does invoke its completion callback, and a response stream
\* does end or emit an error.
FairSpec ==
  /\ Spec
  /\ WF_vars(\E c \in Completions : transportCallback(c[1], c[2]))
  /\ WF_vars(\E i \in 1..Len(streams) : streamEnd(i) \/ streamError(i))

\* ------------------------------------------------------------------ claims
\* What the claims speak of, in terms of the call's arguments.
Called == phase # "idle"
ArgsWellTyped ==
  /\ args.method.t = "string"
  /\ args.url.t = "string"
  /\ args.options.t \in {"undefined", "null", "object"}
Bodyless ==
  ArgsWellTyped /\ ToUpperCase(args.method.s) \in {"GET", "DELETE", "HEAD"}
Duplex ==
  ArgsWellTyped /\ ToUpperCase(args.method.s) \notin {"GET", "DELETE", "HEAD"}
Supplied(x) == x.t # "undefined"
CallerHeaders == args.options.headers.dict
\* The values a headers object holds for a name, in any letter case.
ValuesOf(dict, name) ==
  {dict[i].v : i \in {j \in 1..Len(dict) : ToLowerCase(dict[j].k) = ToLowerCase(name)}}
Invoked == transport # <<>>

\* C1: a GET, DELETE or HEAD request whose options supply body, json or form
\* is rejected with 'You cannot pass a body to a <METHOD> request.' and the
\* transport is never invoked for it.
C1_BodylessWithBodyRejected ==
  (/\ Called
   /\ Bodyless
   /\ \/ Supplied(args.options.body)
      \/ Supplied(args.options.json)
      \/ Supplied(args.options.form))
  => /\ future.state = "rejected"
     /\ future.error =
          Err("Error", "You cannot pass a body to a "
                       \o ToUpperCase(args.method.s) \o " request.")
     /\ ~Invoked

\* C2: the future settles at most once: once it is rejected or resolved, no
\* later completion callback, stream error or drain completion changes it.
C2_SettlesOnce == [][future.state # "pending" => future' = future]_vars

\* C2 witness: a rejected future whose response stream drained afterwards,
\* the completion callback having fired twice.
C2_Witness ==
  /\ future.state = "rejected"
  /\ cbCalls >= 2
  /\ \E i \in 1..Len(streams) : streams[i].ended

\* C3: for a duplex verb the transport is invoked only once getHeaders has
\* settled successfully; if getHeaders fails (its promise is rejected, or it
\* throws) the future is rejected with that error and the transport is never
\* invoked.
C3_HeadersBeforeTransport ==
  (Called /\ Duplex) =>
    /\ Invoked => bodyHeaders.state = "fulfilled"
    /\ bodyHeaders.state = "rejected" =>
         /\ ~Invoked
         /\ phase = "closed" =>
              future.state = "rejected" /\ future.error = bodyHeaders.error
    /\ (args.options.form.t = "form" /\ args.options.form.headersThrows) =>
         /\ ~Invoked
         /\ future.state = "rejected" /\ future.error = FormHeadersThrew

\* C3 witness: the form's length callback reported a failure and the request
\* ended rejected without a transport invocation.
C3_Witness ==
  /\ Duplex
  /\ lengthCalls > 0
  /\ bodyHeaders.state = "rejected"
  /\ phase = "closed"
  /\ future.state = "rejected"
  /\ ~Invoked

\* C4: the body is written to the request sink at most once, into a sink
\* that a transport invocation already made has returned, after getHeaders
\* settled successfully, and only when a body exists; nothing is written
\* when the transport returned no sink.
C4_BodyWrittenOnce ==
  /\ Len(sink) <= 1
  /\ sink # <<>> =>
       /\ sink[1].req \in 1..Len(transport)
       /\ transport[sink[1].req].ret = "sink"
       /\ body.variant # "none"
       /\ sink[1].src = body.variant
       /\ bodyHeaders.state = "fulfilled"
  /\ (\A i \in 1..Len(transport) : transport[i].ret # "sink") => sink = <<>>

\* C4 witness: a form body piped into the sink the transport returned.
C4_Witness ==
  /\ Invoked
  /\ body.variant = "Form"
  /\ sink # <<>>

\* C5: the headers passed to the transport keep every caller-supplied entry
\* as it was; a body-derived header whose name the caller has in any letter
\* case is discarded, and one the caller lacks is added with the body's value.
C5_HeaderMerge ==
  (Called /\ Duplex /\ Invoked) =>
    LET T == transport[1].headers
        B == bodyHeaders.value
    IN /\ Len(T) >= Len(CallerHeaders)
       /\ SubSeq(T, 1, Len(CallerHeaders)) = CallerHeaders
       /\ \A i \in 1..Len(B) :
            IF ValuesOf(CallerHeaders, B[i].k) # {}
            THEN ValuesOf(T, B[i].k) = ValuesOf(CallerHeaders, B[i].k)
            ELSE ValuesOf(T, B[i].k) = {B[i].v}

\* C5 witness: the caller set Content-Type, the body derived content-type and
\* content-length, and the transport was invoked.
C5_Witness ==
  /\ Duplex
  /\ Invoked
  /\ ValuesOf(CallerHeaders, "content-type") # {}
  /\ ValuesOf(CallerHeaders, "content-length") = {}
  /\ {"content-type", "content-length"} \subseteq Keys(bodyHeaders.value)

\* C6: FormBody.getHeaders settles once however often the form's length
\* callback fires: the first firing decides (a failure rejects with an Error
\* object even when it came as a string, anything else resolves with
\* content-length set to the length given) and later firings change nothing.
C6_FormHeadersSettleOnce ==
  [][/\ bodyHeaders.state # "pending" => bodyHeaders' = bodyHeaders
     /\ (body'.variant = "Form" /\ lengthCalls' >= 1) =>
          LET first == firstLength'.err
          IN IF first.name = "Error" \/ (first.name = "string" /\ first.message # "")
             THEN /\ bodyHeaders'.state = "rejected"
                  /\ bodyHeaders'.error = Err("Error", first.message)
             ELSE /\ bodyHeaders'.state = "fulfilled"
                  /\ ValuesOf(bodyHeaders'.value, "content-length")
                       = {ToString(firstLength'.length)}]_vars

\* C6 witness: the first firing failed with a plain string, the callback
\* fired again, and the promise is rejected.
C6_Witness ==
  /\ body.variant = "Form"
  /\ lengthCalls >= 2
  /\ firstLength.err = Err("string", "boom")
  /\ bodyHeaders.state = "rejected"

\* A body that is no Buffer, no string and has no pipe, with neither form
\* nor json given.
UnrecognizedBody ==
  /\ ~Supplied(args.options.form)
  /\ ~Supplied(args.options.json)
  /\ args.options.body.t \notin {"undefined", "string", "buffer", "stream"}
TypeMismatch ==
  \/ args.method.t # "string"
  \/ args.url.t # "string"
  \/ args.options.t \notin {"undefined", "null", "object"}

NothingSupplied ==
  /\ ~Supplied(args.options.body)
  /\ ~Supplied(args.options.json)
  /\ ~Supplied(args.options.form)

\* C8: a duplex verb with no body, json or form sends a zero-length Buffer:
\* the request does not fail before the transport is invoked, the transport
\* receives content-length '0' unless the caller set content-length, and the
\* sink it returns is ended with zero bytes.
C8_EmptyBodyOnDuplex ==
  (Called /\ Duplex /\ NothingSupplied) =>
    /\ body.variant = "Buffer" /\ body.bytes = <<>>
    /\ phase = "closed" => Invoked
    /\ Invoked =>
         /\ ValuesOf(transport[1].headers, "content-length") =
              IF ValuesOf(CallerHeaders, "content-length") # {}
              THEN ValuesOf(CallerHeaders, "content-length") ELSE {"0"}
         /\ transport[1].ret = "sink" =>
              sink = <<[op |-> "end", src |-> "Buffer", bytes |-> <<>>, req |-> 1]>>

\* C8 witness: such a request dispatched with content-length '0' and its sink
\* ended.
C8_Witness ==
  /\ Called /\ Duplex /\ NothingSupplied
  /\ Invoked
  /\ ValuesOf(transport[1].headers, "content-length") = {"0"}
  /\ Len(sink) = 1

\* C9: body selection: with form set the Form variant is used; otherwise
\* with json set, whatever its value, the body is the bytes of its JSON
\* serialization and content-type: application/json is sent unless the
\* caller set content-type; otherwise the body is the one given.
C9_BodySelection ==
  (Called /\ Duplex /\ phase \in {"resolvingHeaders", "dispatched"}) =>
    IF Supplied(args.options.form) THEN body.variant = "Form"
    ELSE IF Supplied(args.options.json)
    THEN /\ body.variant = "Buffer"
         /\ body.bytes = Utf8Bytes(JSONstringify(args.options.json).v)
         /\ Invoked =>
              ValuesOf(transport[1].headers, "content-type") =
                IF ValuesOf(CallerHeaders, "content-type") # {}
                THEN ValuesOf(CallerHeaders, "content-type")
                ELSE {"application/json"}
    ELSE CASE args.options.body.t = "stream" -> body.variant = "Stream"
           [] args.options.body.t = "buffer" ->
                body.variant = "Buffer" /\ body.bytes = args.options.body.v
           [] args.options.body.t = "string" ->
                body.variant = "Buffer"
                /\ body.bytes = Utf8Bytes(args.options.body.v)
           [] OTHER -> body.variant = "Buffer" /\ body.bytes = <<>>

\* C10: a request whose body is a readable stream is sent with the caller's
\* headers as they were: content-length is among them only if the caller
\* supplied it.
C10_StreamNoContentLength ==
  /\ (/\ Called /\ Duplex
      /\ args.options.body.t = "stream"
      /\ ~Supplied(args.options.json)
      /\ ~Supplied(args.options.form)) => body.variant = "Stream"
  /\ (body.variant = "Stream" /\ Invoked) =>
       /\ transport[1].headers = CallerHeaders
       /\ ValuesOf(transport[1].headers, "content-length")
            = ValuesOf(CallerHeaders, "content-length")

\* C10 witness: a stream body dispatched without any content-length.
C10_Witness ==
  /\ args.options.body.t = "stream"
  /\ body.variant = "Stream"
  /\ Invoked
  /\ transport[1].ret = "sink"
  /\ ValuesOf(transport[1].headers, "content-length") = {}

\* C11: the options object the caller passed, and the headers mapping in it,
\* hold after the call exactly what they held before it.
C11_OptionsUntouched ==
  (Called /\ args.options.t = "object") => options = args.options

\* C12: once the transport has been invoked and the request is in flight,
\* the future eventually settles, given that the completion callback fires
\* and that a response stream ends or emits an error.
C12_EventuallySettles == (phase = "dispatched") ~> (future.state # "pending")

\* C12 witness: a request that was dispatched and whose future resolved once
\* the stream had drained.
C12_Witness ==
  /\ phase = "dispatched"
  /\ future.state = "fulfilled"
  /\ \E i \in 1..Len(streams) : streams[i].ended

\* C13: on the completion callback, an error rejects the future with that
\* error and starts no drain; neither error nor response rejects it with
\* 'No request was received'; otherwise the error listener is attached to
\* the response stream before the drain is started, and a stream error then
\* rejects the future.
C13_CompletionCallback ==
  [][/\ \A c \in Completions :
          transportCallback(c[1], c[2]) =>
            IF c[1] # NoError
            THEN /\ streams' = streams
                 /\ future.state = "pending" =>
                      future'.state = "rejected" /\ future'.error = c[1]
            ELSE IF ~c[2].present
            THEN /\ streams' = streams
                 /\ future.state = "pending" =>
                      /\ future'.state = "rejected"
                      /\ future'.error = Err("Error", "No request was received")
            ELSE /\ Len(streams') = Len(streams) + 1
                 /\ future' = future
                 /\ LET ops == streams'[Len(streams')].ops
                    IN \E j, k \in 1..Len(ops) :
                         j < k /\ ops[j] = "on:error" /\ ops[k] = "pipe"
     /\ \A i \in 1..Len(streams) :
          (streamError(i) /\ future.state = "pending") =>
            future'.state = "rejected" /\ future'.error = StreamErr]_vars

\* C13 witness: a stream that had delivered a chunk and not ended emitted an
\* error, and the future is rejected with it.
C13_Witness ==
  /\ future.state = "rejected"
  /\ future.error = StreamErr
  /\ \E i \in 1..Len(streams) : streams[i].chunks # <<>> /\ ~streams[i].ended

\* C14: when a response stream ends while the future is pending, the future is
\* fulfilled with the status code, headers and url the transport reported and
\* a byte body holding every delivered chunk in order, empty when no chunk
\* was delivered.
C14_ResponseSnapshot ==
  [][\A i \in 1..Len(streams) :
       (streamEnd(i) /\ future.state = "pending") =>
         /\ future'.state = "fulfilled"
         /\ future'.value.statusCode = streams[i].res.statusCode
         /\ future'.value.headers = streams[i].res.headers
         /\ future'.value.url = streams[i].res.url
         /\ future'.value.body =
              JsBuf([n \in 1..Len(streams[i].chunks) |-> streams[i].chunks[n][1]])]_vars

\* C14 witness: a future fulfilled with the two chunks its response stream
\* delivered, in order.
C14_Witness ==
  /\ future.state = "fulfilled"
  /\ \E i \in 1..Len(streams) :
       /\ streams[i].ended
       /\ Len(streams[i].chunks) = 2
       /\ future.value.body = JsBuf(<<streams[i].chunks[1][1], streams[i].chunks[2][1]>>)

\* The upper-case spelling of each method string the calls are made with.
UpperCased ==
  [m \in Methods |->
     IF m = "GET" THEN "GET" ELSE IF m = "Delete" THEN "DELETE"
     ELSE IF m = "head" THEN "HEAD" ELSE "PUT"]

\* C15: the method is upper-cased before the body rule is applied and before
\* the transport is invoked: GET, Delete and head select no body and resolve
\* no body headers, and put is handled as a duplex request.
C15_UpperCasedMethod ==
  (Called /\ ArgsWellTyped) =>
    /\ method = UpperCased[args.method.s]
    /\ \A i \in 1..Len(transport) : transport[i].method = UpperCased[args.method.s]
    /\ args.method.s \in {"GET", "Delete", "head"} =>
         /\ body = NoBody
         /\ bodyHeaders.state = "pending"
         /\ phase # "resolvingHeaders"
         /\ sink = <<>>
         /\ \A i \in 1..Len(transport) : transport[i].headers = CallerHeaders
    /\ args.method.s = "put" =>
         \/ body.variant # "none"
         \/ phase = "closed" /\ ~Invoked /\ future.state = "rejected"

\* C15 witness: a request made with the method 'Delete' reached the transport
\* as DELETE with no body selected.
C15_Witness ==
  /\ Invoked
  /\ args.method.s = "Delete"
  /\ transport[1].method = "DELETE"
  /\ body = NoBody

\* C16: getHeaders of the selected body always returns a future: when the
\* form's own getHeaders or getLength call fails on a duplex request, the
\* future getHeaders returned is rejected with that failure.
C16_HeaderFailuresThroughFuture ==
  (/\ Called
   /\ Duplex
   /\ args.options.t = "object"
   /\ args.options.form.t = "form"
   /\ args.options.form.headersThrows \/ args.options.form.lengthThrows) =>
    /\ bodyHeaders.state = "rejected"
    /\ bodyHeaders.error = IF args.options.form.headersThrows
                           THEN FormHeadersThrew ELSE FormLengthThrew

\* C17: the transport is told to follow redirects unless the caller's
\* followRedirects is exactly false, and to use gzip unless the caller's gzip
\* is exactly false: omitted, null, 0 and true all give true.
C17_FlagDefaults ==
  \A i \in 1..Len(transport) :
    /\ transport[i].followRedirects =
         (args.options.followRedirects \in {Undefined, JsNull, JsNum(0), JsTrue})
    /\ transport[i].followRedirects = FALSE <=> args.options.followRedirects = JsFalse
    /\ transport[i].gzip = (args.options.gzip \in {Undefined, JsNull, JsNum(0), JsTrue})
    /\ transport[i].gzip = FALSE <=> args.options.gzip = JsFalse

\* C17 witness: a call with followRedirects 0 and gzip false reached the
\* transport with followRedirects on and gzip off.
C17_Witness ==
  /\ Invoked
  /\ args.options.followRedirects = JsNum(0)
  /\ args.options.gzip = JsFalse
  /\ transport[1].followRedirects
  /\ ~transport[1].gzip

\* C18: one call to request invokes the transport at most once, whatever the
\* callbacks do afterwards.
C18_TransportAtMostOnce == Len(transport) <= 1

\* C18 witness: a form request whose length callback fired twice was
\* dispatched once and failed after dispatch.
C18_Witness ==
  /\ Len(transport) = 1
  /\ body.variant = "Form"
  /\ lengthCalls >= 2
  /\ cbCalls >= 1
  /\ future.state = "rejected"

\* C19: a GET, DELETE or HEAD request with no body, json or form has invoked
\* the transport by the time request returns, with exactly the caller's
\* headers, and nothing is ever written to the sink the transport returned.
C19_BodylessDispatch ==
  (Called /\ Bodyless /\ NothingSupplied) =>
    /\ Len(transport) = 1
    /\ transport[1].headers = CallerHeaders
    /\ ValuesOf(transport[1].headers, "content-length")
         = ValuesOf(CallerHeaders, "content-length")
    /\ ValuesOf(transport[1].headers, "content-type")
         = ValuesOf(CallerHeaders, "content-type")
    /\ phase \in {"dispatched", "closed"}
    /\ bodyHeaders.state = "pending"
    /\ sink = <<>>

\* C19 witness: a bodyless request whose transport returned a sink has been
\* answered, and the sink was never written to.
C19_Witness ==
  /\ Called /\ Bodyless /\ NothingSupplied
  /\ transport[1].ret = "sink"
  /\ future.state = "fulfilled"
  /\ sink = <<>>

====
